---- MODULE Spec2Model ----
(***************************************************************************)
(* Model of the snake environment (src/snake_env.py, class SnakeEnv) and   *)
(* of the hybrid policy (src/agent.py, class HybridSnakeAgent).            *)
(*                                                                         *)
(* Points are pairs <<x, y>>.  A Direction is the pair <<x, y>> of its     *)
(* fields.  Python lists are sequences (index 0 of the code is index 1     *)
(* here).  Rewards are kept in hundredths (-12.0 is -1200) so that the     *)
(* shaping terms -0.03 and +/-0.2 stay integers.                           *)
(***************************************************************************)
EXTENDS Integers, Sequences, FiniteSets, TLC

\* ---------------------------------------------------------------- bounds
MaxWidth == 4
MaxHeight == 2
\* boards with more cells than this are left out of the model
MaxCells == 6
\* how many calls of step the model follows past the stall threshold
MaxOverrun == 2
\* the boards on which reset() alone is explored
MaxResetWidth == 6
MaxResetHeight == 4

\* the searches are followed on grids of at most MaxGridWidth x MaxGridHeight
\* and MaxGridCells cells
MaxGridWidth == 3
MaxGridHeight == 3
MaxGridCells == 9

\* the persisted tables hold keys of at most MaxKeyFields fields and value
\* lists of at most MaxValueLen elements
MaxKeyFields == 12
MaxValueLen == 4

\* the ticks of a manual game are counted up to MaxTicks after a key press
MaxTicks == 2

\* ------------------------------------------------------------- constants
UP == <<0, -1>>
RIGHT == <<1, 0>>
DOWN == <<0, 1>>
LEFT == <<-1, 0>>
CLOCKWISE == <<RIGHT, DOWN, LEFT, UP>>

\* the actions step() accepts, and some it does not
Actions == {0, 1, 2}
InvalidActions == {-1, 3}

\* rewards of step(), in hundredths
CollisionReward == -1200
StepReward == -3
CloserBonus == 20
EatReward == 1500
WinReward == 5000
StuckReward == -500

\* food when no free cell is left (snake_env.py:76)
NoFood == <<-1, -1>>

\* weights of choose_action, in hundredths
ValueWeight == 70
ProgressWeight == 180
AreaWeight == 3
EatBonus == 600
TrapPenalty == 600
NoPathProgress == -2
TrapMargin == 2

\* the length of the tuple get_state returns, and of a table entry
StateWidth == 11
EntryWidth == 3

\* None, as returned by _shortest_path_dist
NoPath == -1

\* no action held by the driving loop
NoAction == -1

\* the entries a value table can hold for one state
QValues == {0, 10}
QTriples == QValues \X QValues \X QValues

Boards == {b \in (1..MaxWidth) \X (1..MaxHeight) : b[1] * b[2] <= MaxCells}
ResetBoards == (1..MaxResetWidth) \X (1..MaxResetHeight)

VARIABLES width, height, snake, direction, food, score, frame_count, ret, chosen, call, pending_action, pressed

vars == <<width, height, snake, direction, food, score, frame_count, ret, chosen, call, pending_action, pressed>>

\* ------------------------------------------------------------- helpers
Abs(n) == IF n < 0 THEN -n ELSE n

\* the cells of a list of points
Cells(s) == {s[i] : i \in 1..Len(s)}

\* s[1:]
Rest(s) == SubSeq(s, 2, Len(s))

\* s[:-1]
ButLast(s) == SubSeq(s, 1, Len(s) - 1)

\* CLOCKWISE.index(d), 0-based as in the code
ClockwiseIndex(d) == (CHOOSE i \in 1..4 : CLOCKWISE[i] = d) - 1

\* CLOCKWISE[i], 0-based as in the code
ClockwiseAt(i) == CLOCKWISE[i + 1]

max_frames_without_food(w, h) == w * h * 2

\* ------------------------------------------------------------ SnakeEnv
\* mutant: the body is laid out to the right of the head
reset_snake_rightwards(w, h) ==
    LET cx == w \div 2
        cy == h \div 2
    IN  << <<cx, cy>>, <<cx + 1, cy>>, <<cx + 2, cy>> >>

reset_snake(w, h) ==
    LET cx == w \div 2
        cy == h \div 2
    IN  << <<cx, cy>>, <<cx - 1, cy>>, <<cx - 2, cy>> >>

\* mutant: every cell of the board is a candidate
food_candidates_any_cell(s, w, h) == (0..(w - 1)) \X (0..(h - 1))

\* the candidates list of _place_food
food_candidates(s, w, h) ==
    {p \in (0..(w - 1)) \X (0..(h - 1)) : p \notin Cells(s)}

\* the values _place_food can leave in self.food
place_food(s, w, h) ==
    IF food_candidates(s, w, h) = {} THEN {NoFood} ELSE food_candidates(s, w, h)

\* mutant: only the walls are checked
is_collision_walls_only(s, w, h, pt) ==
    pt[1] < 0 \/ pt[1] >= w \/ pt[2] < 0 \/ pt[2] >= h

is_collision(s, w, h, pt) ==
    IF pt[1] < 0 \/ pt[1] >= w \/ pt[2] < 0 \/ pt[2] >= h
    THEN TRUE
    ELSE IF pt \in Cells(Rest(s)) THEN TRUE ELSE FALSE

\* mutant: action 2 indexes two places on
next_direction_left_by_two(d, action) ==
    LET idx == ClockwiseIndex(d)
    IN  IF action = 0 THEN ClockwiseAt(idx)
        ELSE IF action = 1 THEN ClockwiseAt((idx + 1) % 4)
        ELSE ClockwiseAt((idx - 2) % 4)

\* defined for the actions 0, 1, 2; any other action raises ValueError
next_direction(d, action) ==
    LET idx == ClockwiseIndex(d)
    IN  IF action = 0 THEN ClockwiseAt(idx)
        ELSE IF action = 1 THEN ClockwiseAt((idx + 1) % 4)
        ELSE ClockwiseAt((idx - 1) % 4)

next_head(s, d) == <<s[1][1] + d[1], s[1][2] + d[2]>>

Bit(b) == IF b THEN 1 ELSE 0

\* mutant: the danger flags of the two turns are exchanged
get_state_swapped(s, d, f, w, h) ==
    LET head == s[1]
        pt_straight == next_head(s, d)
        pt_right == next_head(s, next_direction(d, 1))
        pt_left == next_head(s, next_direction(d, 2))
    IN  << Bit(is_collision(s, w, h, pt_straight)),
           Bit(is_collision(s, w, h, pt_left)),
           Bit(is_collision(s, w, h, pt_right)),
           Bit(d = LEFT), Bit(d = RIGHT), Bit(d = UP), Bit(d = DOWN),
           Bit(f[1] < head[1]), Bit(f[1] > head[1]),
           Bit(f[2] < head[2]), Bit(f[2] > head[2]) >>

get_state(s, d, f, w, h) ==
    LET head == s[1]
        pt_straight == next_head(s, d)
        right_dir == next_direction(d, 1)
        left_dir == next_direction(d, 2)
        pt_right == next_head(s, right_dir)
        pt_left == next_head(s, left_dir)
    IN  << Bit(is_collision(s, w, h, pt_straight)),
           Bit(is_collision(s, w, h, pt_right)),
           Bit(is_collision(s, w, h, pt_left)),
           Bit(d = LEFT), Bit(d = RIGHT), Bit(d = UP), Bit(d = DOWN),
           Bit(f[1] < head[1]), Bit(f[1] > head[1]),
           Bit(f[2] < head[2]), Bit(f[2] > head[2]) >>

manhattan(a, b) == Abs(a[1] - b[1]) + Abs(a[2] - b[2])

\* mutant: the collision is detected after the tail was dropped
collision_outcome_popped(s, d1, f, sc, fc1, w, h) ==
    [snake |-> ButLast(s), direction |-> d1, food |-> f, score |-> sc,
     frame_count |-> fc1, state |-> get_state(ButLast(s), d1, f, w, h),
     reward |-> CollisionReward, done |-> TRUE, reason |-> "collision"]

\* step() when _is_collision(new_head) holds: the fields as they are at
\* the early return (d1 and fc1 are already assigned) and the tuple returned
collision_outcome(s, d1, f, sc, fc1, w, h) ==
    [snake |-> s, direction |-> d1, food |-> f, score |-> sc,
     frame_count |-> fc1, state |-> get_state(s, d1, f, w, h),
     reward |-> CollisionReward, done |-> TRUE, reason |-> "collision"]

\* mutant: the tail is dropped on eating too
move_outcome_pops_on_eat(s, f, sc, fc1, new_head, nf) ==
    LET prev_food_dist == manhattan(f, s[1])
        ate_food == new_head = f
        grown == <<new_head>> \o s
        new_food_dist == manhattan(f, new_head)
    IN  IF ate_food
        THEN [snake |-> ButLast(grown), food |-> nf, score |-> sc + 1, frame_count |-> 0,
              reward |-> EatReward]
        ELSE [snake |-> ButLast(grown), food |-> f, score |-> sc, frame_count |-> fc1,
              reward |-> IF new_food_dist < prev_food_dist THEN StepReward + CloserBonus
                         ELSE IF new_food_dist > prev_food_dist THEN StepReward - CloserBonus
                         ELSE StepReward]

\* step() from the insert of new_head to the end of the eat / move branch:
\* the fields and the reward of the transition; nf is the cell _place_food
\* draws
move_outcome(s, f, sc, fc1, new_head, nf) ==
    LET prev_food_dist == manhattan(f, s[1])
        ate_food == new_head = f
        grown == <<new_head>> \o s
        new_food_dist == manhattan(f, new_head)
    IN  IF ate_food
        THEN [snake |-> grown, food |-> nf, score |-> sc + 1, frame_count |-> 0,
              reward |-> EatReward]
        ELSE [snake |-> ButLast(grown), food |-> f, score |-> sc, frame_count |-> fc1,
              reward |-> IF new_food_dist < prev_food_dist THEN StepReward + CloserBonus
                         ELSE IF new_food_dist > prev_food_dist THEN StepReward - CloserBonus
                         ELSE StepReward]

\* mutant: the win keeps the reward of the transition
end_of_step_keeps_reward(sc, fc, w, h, reward) ==
    IF sc >= w * h - 3 THEN [reward |-> reward, done |-> TRUE, reason |-> "win"]
    ELSE IF fc > max_frames_without_food(w, h)
         THEN [reward |-> StuckReward, done |-> TRUE, reason |-> "stuck"]
         ELSE [reward |-> reward, done |-> FALSE, reason |-> "running"]

\* mutant: the stall check fires one frame early
end_of_step_stalls_early(sc, fc, w, h, reward) ==
    IF sc >= w * h - 3 THEN [reward |-> WinReward, done |-> TRUE, reason |-> "win"]
    ELSE IF fc >= max_frames_without_food(w, h)
         THEN [reward |-> StuckReward, done |-> TRUE, reason |-> "stuck"]
         ELSE [reward |-> reward, done |-> FALSE, reason |-> "running"]

\* mutant: no stall check
end_of_step_never_stalls(sc, fc, w, h, reward) ==
    IF sc >= w * h - 3 THEN [reward |-> WinReward, done |-> TRUE, reason |-> "win"]
    ELSE [reward |-> reward, done |-> FALSE, reason |-> "running"]

\* the win and stall checks that end step(): (reward, done, reason)
end_of_step(sc, fc, w, h, reward) ==
    IF sc >= w * h - 3 THEN [reward |-> WinReward, done |-> TRUE, reason |-> "win"]
    ELSE IF fc > max_frames_without_food(w, h)
         THEN [reward |-> StuckReward, done |-> TRUE, reason |-> "stuck"]
         ELSE [reward |-> reward, done |-> FALSE, reason |-> "running"]

\* what step(action) returns and leaves in the fields, from the fields
\* s, d, f, sc, fc on a w x h board, for an action in 0..2
step_result(s, d, f, sc, fc, w, h, action, nf) ==
    LET fc1 == fc + 1
        d1 == next_direction(d, action)
        new_head == next_head(s, d1)
        m == move_outcome(s, f, sc, fc1, new_head, nf)
        e == end_of_step(m.score, m.frame_count, w, h, m.reward)
    IN  IF is_collision(s, w, h, new_head)
        THEN collision_outcome(s, d1, f, sc, fc1, w, h)
        ELSE [snake |-> m.snake, direction |-> d1, food |-> m.food, score |-> m.score,
              frame_count |-> m.frame_count,
              state |-> get_state(m.snake, d1, m.food, w, h),
              reward |-> e.reward, done |-> e.done, reason |-> e.reason]

\* the cells _place_food can draw in step(action): one draw, and only
\* when the move eats
step_draws(s, d, f, w, h, action) ==
    LET new_head == next_head(s, next_direction(d, action))
    IN  IF ~is_collision(s, w, h, new_head) /\ new_head = f
        THEN place_food(<<new_head>> \o s, w, h)
        ELSE {f}

\* ---------------------------------------------------- HybridSnakeAgent
in_bounds(p, w, h) == 0 <= p[1] /\ p[1] < w /\ 0 <= p[2] /\ p[2] < h

\* mutant: the hypothetical body drops the tail on eating too
simulate_step_always_pops(s, d, f, action) ==
    LET nh == next_head(s, next_direction(d, action))
    IN  [next_head |-> nh, next_body |-> <<nh>> \o ButLast(s), ate_food |-> nh = f]

\* (next_head, next_body, ate_food); any action other than 0 and 1 turns
\* left
simulate_step(s, d, f, action) ==
    LET idx == ClockwiseIndex(d)
        next_dir == IF action = 0 THEN ClockwiseAt(idx)
                    ELSE IF action = 1 THEN ClockwiseAt((idx + 1) % 4)
                    ELSE ClockwiseAt((idx - 1) % 4)
        nh == <<s[1][1] + next_dir[1], s[1][2] + next_dir[2]>>
        ate == nh = f
    IN  [next_head |-> nh,
         next_body |-> IF ate THEN <<nh>> \o s ELSE <<nh>> \o ButLast(s),
         ate_food |-> ate]

\* mutant: the hypothetical body is built in the list of the environment
simulate_step_in_place(s, d, f, action) == simulate_step(s, d, f, action).next_body

\* env.snake after _simulate_step(env, action): next_body is a new list
\* built from copies (list(env.snake), list(env.snake[:-1])), the list of
\* the environment is not written
simulate_step_leaves(s, d, f, action) == s

\* is the action kept by the loop of _safe_actions
is_safe(s, d, f, w, h, action) ==
    LET sim == simulate_step(s, d, f, action)
    IN  in_bounds(sim.next_head, w, h)
        /\ sim.next_head \notin Cells(Rest(sim.next_body))

\* the list _safe_actions returns, in the order 0, 1, 2
safe_actions(s, d, f, w, h) ==
    LET keep(a) == IF is_safe(s, d, f, w, h, a) THEN <<a>> ELSE <<>>
    IN  keep(0) \o keep(1) \o keep(2)

\* env.snake after the calls of _simulate_step for the actions todo[i..]
RECURSIVE simulations_leave(_, _, _, _, _)
simulations_leave(s, d, f, todo, i) ==
    IF i > Len(todo) THEN s
    ELSE simulations_leave(simulate_step_leaves(s, d, f, todo[i]), d, f, todo, i + 1)

\* env.snake after choose_action: _safe_actions simulates the actions 0, 1,
\* 2 and the loop of choose_action simulates the safe ones again; no other
\* statement of the agent touches the environment
choose_action_leaves(s, d, f, w, h) ==
    simulations_leave(s, d, f, <<0, 1, 2>> \o safe_actions(s, d, f, w, h), 1)

\* the four neighbours in the order the searches visit them
Neighbours(p) ==
    << <<p[1] + 1, p[2]>>, <<p[1] - 1, p[2]>>, <<p[1], p[2] + 1>>, <<p[1], p[2] - 1>> >>

\* mutant: the target found gets the distance of the cell it was found from
spd_visit_same_dist(st, np, dist, target, blocked, w, h) ==
    IF st.found # NoPath THEN st
    ELSE IF ~in_bounds(np, w, h) THEN st
    ELSE IF np \in blocked \/ np \in st.visited THEN st
    ELSE IF np = target THEN [st EXCEPT !.found = dist]
    ELSE [st EXCEPT !.visited = @ \union {np}, !.q = Append(@, <<np, dist + 1>>)]

\* one pass of the inner loop of _shortest_path_dist for the neighbour np
\* of a cell at distance dist; st.found is the value returned, if any
spd_visit(st, np, dist, target, blocked, w, h) ==
    IF st.found # NoPath THEN st
    ELSE IF ~in_bounds(np, w, h) THEN st
    ELSE IF np \in blocked \/ np \in st.visited THEN st
    ELSE IF np = target THEN [st EXCEPT !.found = dist + 1]
    ELSE [st EXCEPT !.visited = @ \union {np}, !.q = Append(@, <<np, dist + 1>>)]

\* one pass of the while loop of _shortest_path_dist: pop the head of the
\* queue and visit its four neighbours; nothing to do once the search is over
spd_pop(st, target, blocked, w, h) ==
    IF st.found # NoPath \/ st.q = <<>> THEN st
    ELSE LET cur == Head(st.q)
             nb == Neighbours(cur[1])
             st0 == [st EXCEPT !.q = Tail(@)]
             st1 == spd_visit(st0, nb[1], cur[2], target, blocked, w, h)
             st2 == spd_visit(st1, nb[2], cur[2], target, blocked, w, h)
             st3 == spd_visit(st2, nb[3], cur[2], target, blocked, w, h)
         IN  spd_visit(st3, nb[4], cur[2], target, blocked, w, h)

\* the while loop, four passes at a time
RECURSIVE spd_loop(_, _, _, _, _)
spd_loop(st, target, blocked, w, h) ==
    IF st.found # NoPath THEN st.found
    ELSE IF st.q = <<>> THEN NoPath
    ELSE LET p1 == spd_pop(st, target, blocked, w, h)
             p2 == spd_pop(p1, target, blocked, w, h)
             p3 == spd_pop(p2, target, blocked, w, h)
             p4 == spd_pop(p3, target, blocked, w, h)
         IN  spd_loop(p4, target, blocked, w, h)

shortest_path_dist(start, target, blocked, w, h) ==
    IF start = target THEN 0
    ELSE IF target \in blocked THEN NoPath
    ELSE spd_loop([q |-> << <<start, 0>> >>, visited |-> {start}, found |-> NoPath],
                  target, blocked, w, h)

\* mutant: blocked cells are walked through
ff_visit_through_blocked(st, np, blocked, w, h) ==
    IF ~in_bounds(np, w, h) THEN st
    ELSE IF np \in st.visited THEN st
    ELSE [st EXCEPT !.visited = @ \union {np}, !.q = Append(@, np)]

\* one pass of the inner loop of _flood_fill_size for the neighbour np
ff_visit(st, np, blocked, w, h) ==
    IF ~in_bounds(np, w, h) THEN st
    ELSE IF np \in blocked \/ np \in st.visited THEN st
    ELSE [st EXCEPT !.visited = @ \union {np}, !.q = Append(@, np)]

\* one pass of the while loop of _flood_fill_size
ff_pop(st, blocked, w, h) ==
    IF st.q = <<>> THEN st
    ELSE LET nb == Neighbours(Head(st.q))
             st0 == [st EXCEPT !.q = Tail(@)]
             st1 == ff_visit(st0, nb[1], blocked, w, h)
             st2 == ff_visit(st1, nb[2], blocked, w, h)
             st3 == ff_visit(st2, nb[3], blocked, w, h)
         IN  ff_visit(st3, nb[4], blocked, w, h)

\* the while loop, four passes at a time
RECURSIVE ff_loop(_, _, _, _)
ff_loop(st, blocked, w, h) ==
    IF st.q = <<>> THEN Cardinality(st.visited)
    ELSE LET p1 == ff_pop(st, blocked, w, h)
             p2 == ff_pop(p1, blocked, w, h)
             p3 == ff_pop(p2, blocked, w, h)
             p4 == ff_pop(p3, blocked, w, h)
         IN  ff_loop(p4, blocked, w, h)

flood_fill_size(start, blocked, w, h) ==
    IF start \in blocked \/ ~in_bounds(start, w, h) THEN 0
    ELSE ff_loop([q |-> <<start>>, visited |-> {start}], blocked, w, h)

\* the composite score of one candidate, in hundredths; q_values holds the
\* table entry of the state (q_values[action + 1] is q_values[action] of
\* the code)
action_score(s, d, f, w, h, q_values, action) ==
    LET sim == simulate_step(s, d, f, action)
        blocked == Cells(Rest(sim.next_body))
        base_dist == manhattan(s[1], f)
        dist_to_food == shortest_path_dist(sim.next_head, f, blocked, w, h)
        free_space == flood_fill_size(sim.next_head, blocked, w, h)
        trap_penalty == IF free_space < Len(sim.next_body) + TrapMargin
                        THEN TrapPenalty ELSE 0
        progress == IF dist_to_food # NoPath THEN base_dist - dist_to_food
                    ELSE IF ~sim.ate_food THEN NoPathProgress
                    ELSE 0
    IN  q_values[action + 1] * ValueWeight
        + progress * ProgressWeight
        + free_space * AreaWeight
        + (IF sim.ate_food THEN EatBonus ELSE 0)
        - trap_penalty

\* mutant: a candidate that ties the best so far replaces it
RECURSIVE choose_loop_keeps_last(_, _, _, _, _, _, _, _, _)
choose_loop_keeps_last(s, d, f, w, h, q_values, safe, i, best) ==
    IF i > Len(safe) THEN best.action
    ELSE LET sc == action_score(s, d, f, w, h, q_values, safe[i])
         IN  IF ~best.set \/ sc >= best.score
             THEN choose_loop_keeps_last(s, d, f, w, h, q_values, safe, i + 1,
                              [action |-> safe[i], score |-> sc, set |-> TRUE])
             ELSE choose_loop_keeps_last(s, d, f, w, h, q_values, safe, i + 1, best)

\* the loop of choose_action over safe[i..]; best.set is FALSE while
\* best_score is still -inf
RECURSIVE choose_loop(_, _, _, _, _, _, _, _, _)
choose_loop(s, d, f, w, h, q_values, safe, i, best) ==
    IF i > Len(safe) THEN best.action
    ELSE LET sc == action_score(s, d, f, w, h, q_values, safe[i])
         IN  IF ~best.set \/ sc > best.score
             THEN choose_loop(s, d, f, w, h, q_values, safe, i + 1,
                              [action |-> safe[i], score |-> sc, set |-> TRUE])
             ELSE choose_loop(s, d, f, w, h, q_values, safe, i + 1, best)

\* mutant: the candidates are all three actions, not the safe ones
choose_action_unfiltered(s, d, f, w, h, q_values) ==
    choose_loop(s, d, f, w, h, q_values, <<0, 1, 2>>, 1,
                [action |-> 0, score |-> 0, set |-> FALSE])

choose_action(s, d, f, w, h, q_values) ==
    LET safe == safe_actions(s, d, f, w, h)
    IN  IF safe = <<>> THEN 0
        ELSE choose_loop(s, d, f, w, h, q_values, safe, 1,
                         [action |-> safe[1], score |-> 0, set |-> FALSE])

\* max(q_values)
max_of(q_values) ==
    CHOOSE m \in Cells(q_values) : \A x \in Cells(q_values) : x <= m

\* mutant: the scan for max_q runs from the last index down
rl_scan_from_end(q_values, max_q, i) ==
    IF q_values[3] = max_q THEN 2
    ELSE IF q_values[2] = max_q THEN 1
    ELSE 0

\* the loop of choose_action_rl_only from index i - 1 of the code on, and
\* the return 0 after it
RECURSIVE rl_scan(_, _, _)
rl_scan(q_values, max_q, i) ==
    IF i > Len(q_values) THEN 0
    ELSE IF q_values[i] = max_q THEN i - 1
    ELSE rl_scan(q_values, max_q, i + 1)

\* q_table is a function from the states it holds to their entries
choose_action_rl_only(q_table, state) ==
    LET q_values == IF state \in DOMAIN q_table THEN q_table[state] ELSE <<0, 0, 0>>
    IN  rl_scan(q_values, max_of(q_values), 1)

\* ------------------------------------------------------- ManualSnakeApp
\* _relative_action(target_dir) when the heading of the environment is d
relative_action(d, target_dir) ==
    LET idx == ClockwiseIndex(d)
    IN  IF target_dir = ClockwiseAt(idx) THEN 0
        ELSE IF target_dir = ClockwiseAt((idx + 1) % 4) THEN 1
        ELSE IF target_dir = ClockwiseAt((idx - 1) % 4) THEN 2
        ELSE 0

\* --------------------------------------------------------- load_q_table
\* A string is the sequence of its characters.  A payload is the list of
\* the (key, value) pairs of the JSON object in file order; a value is the
\* list of the JSON texts of its elements.

\* key.split("|") from position i on: cur is the field being read, acc the
\* fields already closed
RECURSIVE split_loop(_, _, _, _)
split_loop(key, i, cur, acc) ==
    IF i > Len(key) THEN Append(acc, cur)
    ELSE IF key[i] = "|" THEN split_loop(key, i + 1, <<>>, Append(acc, cur))
    ELSE split_loop(key, i + 1, Append(cur, key[i]), acc)

split(key) == split_loop(key, 1, <<>>, <<>>)

DigitValue(c) == IF c = "1" THEN 1 ELSE 0

\* int(x) raises ValueError unless x is a non-empty run of digits (signs,
\* blanks and underscores are not among the characters of the model)
int_raises(x) == x = <<>> \/ \E i \in 1..Len(x) : x[i] \notin {"0", "1"}

RECURSIVE int_of(_)
int_of(x) ==
    IF x = <<>> THEN 0
    ELSE 10 * int_of(ButLast(x)) + DigitValue(x[Len(x)])

\* float(x) of an element of a value list: a JSON number converts, null
\* raises TypeError; the float is kept in hundredths
float_raises(x) == x = "null"
float_of(x) == IF x = "1.5" THEN 150 ELSE 0

\* the loop of load_q_table over payload[i..]: the table built so far, or
\* the exception that leaves the function
RECURSIVE load_loop(_, _, _)
load_loop(payload, i, q_table) ==
    IF i > Len(payload) THEN [raised |-> FALSE, table |-> q_table]
    ELSE LET key == payload[i][1]
             value == payload[i][2]
             fields == split(key)
         IN  IF \E k \in 1..Len(fields) : int_raises(fields[k])
             THEN [raised |-> TRUE, table |-> <<>>]
             ELSE IF \E k \in 1..Len(value) : float_raises(value[k])
             THEN [raised |-> TRUE, table |-> <<>>]
             ELSE load_loop(payload, i + 1,
                            ([k \in 1..Len(fields) |-> int_of(fields[k])]
                                :> [k \in 1..Len(value) |-> float_of(value[k])])
                            @@ q_table)

load_q_table(payload) == load_loop(payload, 1, <<>>)

\* ------------------------------------------------------------- actions
\* ret is what the caller holds of the last call of reset or step: the
\* operation, the action passed, the tuple returned, and whether the call
\* raised.  chosen is the local variable action of the loops that ask the
\* agent (eval.py:40-41): it holds the value of choose_action between that
\* call and the call of step that consumes it, and NoAction otherwise.
\* Nothing runs between the two calls, so every other operation starts
\* from chosen = NoAction.

\* call is one call of a function of the agent or of the loaders that is
\* followed on its own, apart from any episode: its name, its arguments,
\* and what it returned once it has.  NoCall when no such call is followed.
NoCall == [op |-> "none"]

\* SnakeEnv(width, height) on a board of B: the constructor ends with
\* reset()
Constructed(B) ==
    /\ \E b \in B : width = b[1] /\ height = b[2]
    /\ snake = reset_snake(width, height)
    /\ direction = RIGHT
    /\ score = 0
    /\ frame_count = 0
    /\ food \in place_food(snake, width, height)
    /\ ret = [op |-> "reset", action |-> 0,
              state |-> get_state(snake, direction, food, width, height),
              reward |-> 0, done |-> FALSE, reason |-> "running", raised |-> FALSE]
    /\ chosen = NoAction

\* pending_action is the field of ManualSnakeApp; pressed records the last
\* arrow key pressed in the running episode: the key, the heading of the
\* snake when it was pressed and the ticks since (counted up to MaxTicks).
\* The record is dropped when a step returns done.  Without a manual game
\* pending_action is 0 and pressed is NoPress.
NoKey == <<0, 0>>
NoPress == [key |-> NoKey, heading |-> NoKey, ticks |-> 0]

manual == <<pending_action, pressed>>

InitOn(B) ==
    /\ Constructed(B)
    /\ call = NoCall
    /\ pending_action = 0
    /\ pressed = NoPress

Init == InitOn(Boards)

ResetEnv ==
    /\ chosen = NoAction
    /\ direction' = RIGHT
    /\ snake' = reset_snake(width, height)
    /\ score' = 0
    /\ frame_count' = 0
    /\ food' \in place_food(snake', width, height)
    /\ ret' = [op |-> "reset", action |-> 0,
               state |-> get_state(snake', direction', food', width, height),
               reward |-> 0, done |-> FALSE, reason |-> "running", raised |-> FALSE]
    /\ chosen' = NoAction
    /\ UNCHANGED <<width, height, call>>

\* reset() where no manual game is followed
Reset == ResetEnv /\ UNCHANGED manual

\* the model stops following an episode MaxOverrun calls past the stall
\* threshold
WithinOverrun == frame_count < max_frames_without_food(width, height) + MaxOverrun

StepWith(action, nf) ==
    LET r == step_result(snake, direction, food, score, frame_count,
                         width, height, action, nf)
    IN  /\ snake' = r.snake
        /\ direction' = r.direction
        /\ food' = r.food
        /\ score' = r.score
        /\ frame_count' = r.frame_count
        /\ ret' = [op |-> "step", action |-> action, state |-> r.state,
                   reward |-> r.reward, done |-> r.done, reason |-> r.reason,
                   raised |-> FALSE]
        /\ chosen' = NoAction
        /\ UNCHANGED <<width, height, call>>

StepAction(action) ==
    /\ WithinOverrun
    /\ \E nf \in step_draws(snake, direction, food, width, height, action) :
          StepWith(action, nf)

\* step(action) with any valid action (training loop, manual play)
Step ==
    /\ chosen = NoAction
    /\ \E action \in Actions : StepAction(action)
    /\ UNCHANGED manual

\* state, _reward, done, info = env.step(action) with the action the
\* agent chose
StepChosen ==
    /\ chosen # NoAction
    /\ StepAction(chosen)
    /\ UNCHANGED manual

\* step(action) with an action that _next_direction rejects: frame_count
\* was incremented before the ValueError is raised, and the caller gets no
\* new (state, reward, done, info)
StepInvalidAction(action) ==
    /\ chosen = NoAction
    /\ WithinOverrun
    /\ frame_count' = frame_count + 1
    /\ ret' = [ret EXCEPT !.op = "step", !.action = action, !.raised = TRUE]
    /\ chosen' = NoAction
    /\ UNCHANGED <<width, height, snake, direction, food, score, call, manual>>

StepInvalid == \E action \in InvalidActions : StepInvalidAction(action)

\* action = agent.choose_action(env, state) in the driving loop, with
\* q_values the entry of the value table for state
ChooseActionWith(q_values) ==
    /\ chosen = NoAction
    /\ UNCHANGED <<width, height, direction, food, score, frame_count, ret, call, manual>>
    /\ snake' = choose_action_leaves(snake, direction, food, width, height)
    /\ chosen' = choose_action(snake, direction, food, width, height, q_values)

ChooseAction == \E q_values \in QTriples : ChooseActionWith(q_values)

Next == Reset \/ Step \/ StepInvalid \/ ChooseAction \/ StepChosen

Spec == Init /\ [][Next]_vars

\* reset() and step() with valid actions on the 4 x 2 board, the smallest
\* on which the snake of reset() is in bounds and can turn back onto its
\* own tail
PlayBoards == {<<4, 2>>}
InitPlay == InitOn(PlayBoards)
NextPlay == Reset \/ Step
SpecPlay == InitPlay /\ [][NextPlay]_vars

\* the episodes of evaluate and train: reset(), then step() with a valid
\* action while done is False, then the next episode.  The loop
\* "while not done" calls step on every pass, so a step that stays
\* possible is eventually taken.
EpisodeStep == ~ret.done /\ Step
EpisodeReset == ret.done /\ Reset
NextEpisode == EpisodeStep \/ EpisodeReset
InitEpisode == InitOn(Boards \union PlayBoards)
SpecEpisode == InitEpisode /\ [][NextEpisode]_vars /\ WF_vars(EpisodeStep)

\* the episodes of evaluate under the hybrid policy: reset(), then while
\* done is False choose_action for the current state and step with the
\* action it returned, then the next episode
LoopChoose == ~ret.done /\ ChooseAction
LoopStep == StepChosen
LoopReset == ret.done /\ Reset
NextLoop == LoopChoose \/ LoopStep \/ LoopReset
InitLoop == InitOn(Boards \union PlayBoards)
SpecLoop == InitLoop /\ [][NextLoop]_vars

\* manual play: the constructor of ManualSnakeApp resets the environment
\* and sets pending_action to 0; then arrow keys, the key r and the ticks
\* of the timer come in any order.  tick() calls step(pending_action)
\* whatever the last step returned and leaves pending_action as it is.
SetDirection(target_dir) ==
    /\ pending_action' = relative_action(direction, target_dir)
    /\ pressed' = IF ret.done THEN NoPress
                  ELSE [key |-> target_dir, heading |-> direction, ticks |-> 0]
    /\ UNCHANGED <<width, height, snake, direction, food, score, frame_count, ret,
                   chosen, call>>

KeyPress == \E target_dir \in {UP, DOWN, LEFT, RIGHT} : SetDirection(target_dir)

Tick ==
    /\ StepAction(pending_action)
    /\ pending_action' = pending_action
    /\ pressed' = IF ret'.done \/ pressed = NoPress THEN NoPress
                  ELSE [pressed EXCEPT !.ticks = IF @ < MaxTicks THEN @ + 1 ELSE @]

Restart ==
    /\ ResetEnv
    /\ pending_action' = 0
    /\ pressed' = NoPress

ManualBoards == {<<4, 2>>}
InitManual == InitOn(ManualBoards)
NextManual == KeyPress \/ Tick \/ Restart
SpecManual == InitManual /\ [][NextManual]_vars

\* reset() alone, on the boards of ResetBoards
InitReset == InitOn(ResetBoards)
NextReset == Reset
SpecReset == InitReset /\ [][NextReset]_vars

\* --------------------------------------------- calls followed on their own
\* the grids of the searches
Grids == {g \in (1..MaxGridWidth) \X (1..MaxGridHeight) : g[1] * g[2] <= MaxGridCells}

GridCells(w, h) == (0..(w - 1)) \X (0..(h - 1))

\* the cells a search can be started from: the cells of the grid and the
\* cells one step outside it
StartCells(w, h) == (-1..w) \X (-1..h)

\* HybridSnakeAgent._shortest_path_dist(start, target, blocked, width,
\* height) is called: start is a cell of the grid, target a cell of the
\* grid or the food of a full board
ShortestPathCalled ==
    \E g \in Grids : \E b \in SUBSET GridCells(g[1], g[2]) :
        \E s \in GridCells(g[1], g[2]) : \E t \in GridCells(g[1], g[2]) \union {NoFood} :
            call = [op |-> "shortest_path_dist", w |-> g[1], h |-> g[2], blocked |-> b,
                    start |-> s, target |-> t, returned |-> FALSE, result |-> 0]

\* HybridSnakeAgent._flood_fill_size(start, blocked, width, height) is
\* called
FloodFillCalled ==
    \E g \in Grids : \E b \in SUBSET GridCells(g[1], g[2]) :
        \E s \in StartCells(g[1], g[2]) :
            call = [op |-> "flood_fill_size", w |-> g[1], h |-> g[2], blocked |-> b,
                    start |-> s, returned |-> FALSE, result |-> 0]

\* the states and the values of the tables choose_action_rl_only is
\* called with; a table holds an entry for any subset of the states
RlStates == {<<0, 0, 0, 0, 1, 0, 0, 0, 1, 0, 0>>, <<1, 0, 0, 0, 1, 0, 0, 0, 0, 0, 0>>}
RlValues == {-5, 0, 10}
RlTables ==
    UNION {[K -> RlValues \X RlValues \X RlValues] : K \in SUBSET RlStates}

\* HybridSnakeAgent(q_table).choose_action_rl_only(state) is called
RlOnlyCalled ==
    \E t \in RlTables : \E st \in RlStates :
        call = [op |-> "choose_action_rl_only", q_table |-> t, state |-> st,
                returned |-> FALSE, result |-> 0]

\* the keys of the persisted tables: MaxKeyFields fields or fewer joined
\* by "|", all of them "1" but for at most one, which is "0", "10", "x" or
\* empty
RECURSIVE join(_)
join(fields) ==
    IF Len(fields) = 1 THEN fields[1]
    ELSE join(ButLast(fields)) \o <<"|">> \o fields[Len(fields)]

OtherFields == {<<"0">>, <<"1", "0">>, <<"x">>, <<>>}
KeyFields ==
    UNION {{[i \in 1..n |-> <<"1">>]}
           \union {[i \in 1..n |-> IF i = k THEN f ELSE <<"1">>] :
                       k \in 1..n, f \in OtherFields} :
           n \in 1..MaxKeyFields}
Keys == {join(fields) : fields \in KeyFields}

\* the value lists of the persisted tables
JsonElements == {"1.5", "null"}
ValueLists == UNION {[1..n -> JsonElements] : n \in 0..MaxValueLen}

\* load_q_table(path) is called on a file holding one entry
LoadCalled ==
    \E key \in Keys : \E value \in ValueLists :
        call = [op |-> "load_q_table", payload |-> << <<key, value>> >>,
                returned |-> FALSE, raised |-> FALSE, table |-> <<>>]

\* SnakeEnv._next_direction(action) and HybridSnakeAgent._simulate_step(env,
\* action) are called on an environment whose heading is d
NextDirectionCalled ==
    \E d \in {UP, RIGHT, DOWN, LEFT} : \E action \in Actions :
        call = [op |-> "next_direction", direction |-> d, action |-> action,
                returned |-> FALSE, result |-> d, simulated |-> d]

\* the environment the calls are made beside
CallBoards == {<<4, 1>>}

InitCalls ==
    /\ Constructed(CallBoards)
    /\ pending_action = 0
    /\ pressed = NoPress
    /\ \/ ShortestPathCalled \/ FloodFillCalled \/ RlOnlyCalled \/ LoadCalled
       \/ NextDirectionCalled

\* _shortest_path_dist returns
ShortestPathDist ==
    /\ call.op = "shortest_path_dist"
    /\ ~call.returned
    /\ call' = [call EXCEPT !.returned = TRUE,
                            !.result = shortest_path_dist(call.start, call.target,
                                                          call.blocked, call.w, call.h)]
    /\ UNCHANGED <<width, height, snake, direction, food, score, frame_count, ret, chosen, manual>>

\* _flood_fill_size returns
FloodFillSize ==
    /\ call.op = "flood_fill_size"
    /\ ~call.returned
    /\ call' = [call EXCEPT !.returned = TRUE,
                            !.result = flood_fill_size(call.start, call.blocked,
                                                       call.w, call.h)]
    /\ UNCHANGED <<width, height, snake, direction, food, score, frame_count, ret, chosen, manual>>

\* choose_action_rl_only returns
ChooseActionRlOnly ==
    /\ call.op = "choose_action_rl_only"
    /\ ~call.returned
    /\ call' = [call EXCEPT !.returned = TRUE,
                            !.result = choose_action_rl_only(call.q_table, call.state)]
    /\ UNCHANGED <<width, height, snake, direction, food, score, frame_count, ret, chosen, manual>>

\* load_q_table returns or raises
LoadQTable ==
    /\ call.op = "load_q_table"
    /\ ~call.returned
    /\ LET r == load_q_table(call.payload)
       IN  call' = [call EXCEPT !.returned = TRUE, !.raised = r.raised,
                                !.table = r.table]
    /\ UNCHANGED <<width, height, snake, direction, food, score, frame_count, ret, chosen, manual>>

\* _next_direction returns, and so does _simulate_step: simulated is the
\* vector from the head to the next_head it returns, the next_dir it
\* resolved
NextDirection ==
    /\ call.op = "next_direction"
    /\ ~call.returned
    /\ LET sim == simulate_step(snake, call.direction, food, call.action)
       IN  call' = [call EXCEPT
                       !.returned = TRUE,
                       !.result = next_direction(call.direction, call.action),
                       !.simulated = <<sim.next_head[1] - snake[1][1],
                                       sim.next_head[2] - snake[1][2]>>]
    /\ UNCHANGED <<width, height, snake, direction, food, score, frame_count, ret, chosen, manual>>

NextCalls ==
    \/ ShortestPathDist \/ FloodFillSize \/ ChooseActionRlOnly \/ LoadQTable
    \/ NextDirection

SpecCalls == InitCalls /\ [][NextCalls]_vars

TypeOK ==
    /\ width \in Nat \ {0}
    /\ height \in Nat \ {0}
    /\ direction \in {UP, RIGHT, DOWN, LEFT}
    /\ score \in Nat
    /\ frame_count \in Nat
    /\ chosen \in Actions \union {NoAction}
    /\ pending_action \in Actions

\* ------------------------------------------------------------- claims
\* the head step(action) would move to
NewHead(action) == next_head(snake, next_direction(direction, action))

\* the last cell of the snake
TailCell == snake[Len(snake)]

OutOfBounds(p) == p[1] < 0 \/ p[1] >= width \/ p[2] < 0 \/ p[2] >= height

\* the collision rule as the specification words it: out of bounds, or on
\* a snake cell other than the tail cell that the move vacates (a move
\* that eats vacates nothing)
HitsWallOrBody(action) ==
    LET nh == NewHead(action)
        vacated == IF nh = food THEN {} ELSE {TailCell}
    IN  OutOfBounds(nh) \/ nh \in (Cells(snake) \ vacated)

\* step(action) from the current state ends with reason "collision"
WouldCollide(action) ==
    \A nf \in step_draws(snake, direction, food, width, height, action) :
        step_result(snake, direction, food, score, frame_count,
                    width, height, action, nf).reason = "collision"

\* this transition is step(action) returning normally (the first three
\* conjuncts follow from the last)
Stepped(action) ==
    /\ chosen' = NoAction
    /\ ret'.op = "step"
    /\ ret'.action = action
    /\ StepAction(action)

\* C1: step(a) ends with reason "collision" (done, reward -12) if and only
\* if the new head is out of bounds or on a snake cell other than the tail
\* cell the move vacates; a non-eating move onto the tail cell is applied as
\* a normal move.
C1_CollisionIffWallOrBodyButTail ==
    [][\A a \in Actions : Stepped(a) =>
          /\ (ret'.reason = "collision") <=> HitsWallOrBody(a)
          /\ (ret'.reason = "collision") => (ret'.done /\ ret'.reward = CollisionReward)
          /\ (NewHead(a) = TailCell /\ NewHead(a) # food /\ Len(snake) > 1)
                => snake' = <<TailCell>> \o ButLast(snake)]_vars

C3_SafeActionsAreNonColliding ==
    Cells(safe_actions(snake, direction, food, width, height))
        = {a \in Actions : ~WouldCollide(a)}

\* C4: choose_action returns a member of the output of _safe_actions when
\* that output is non-empty, and 0 when it is empty.
C4_ChosenIsSafeOrDefault ==
    chosen # NoAction =>
        LET safe == safe_actions(snake, direction, food, width, height)
        IN  IF safe = <<>> THEN chosen = 0 ELSE chosen \in Cells(safe)

\* choose_action picked the last of several safe actions
C4_Witness ==
    /\ chosen = 2
    /\ Len(safe_actions(snake, direction, food, width, height)) >= 2

\* C5: a non-colliding step onto the food adds 1 to score, inserts the new
\* head and keeps the tail, puts the food off the new snake (on a free cell
\* of the board, or at (-1, -1) when there is none) and leaves
\* framesSinceFood at 0; a non-colliding step that does not eat leaves
\* score, snake length and food unchanged.
C5_EatGrowsElseConserves ==
    [][\A a \in Actions : (Stepped(a) /\ ret'.reason # "collision") =>
          IF NewHead(a) = food
          THEN /\ score' = score + 1
               /\ Len(snake') = Len(snake) + 1
               /\ snake' = <<NewHead(a)>> \o snake
               /\ food' \notin Cells(snake')
               /\ food' # food
               /\ \/ ~OutOfBounds(food')
                  \/ /\ food' = NoFood
                     /\ \A p \in (0..(width - 1)) \X (0..(height - 1)) : p \in Cells(snake')
               /\ frame_count' = 0
          ELSE /\ score' = score
               /\ Len(snake') = Len(snake)
               /\ food' = food]_vars

\* the last step ate, for the second time at least, and play goes on
C5_Witness ==
    /\ ret.op = "step" /\ ~ret.raised /\ ret.reason = "running"
    /\ ret.reward = EatReward /\ frame_count = 0
    /\ score >= 2 /\ Len(snake) = score + 3

\* the state just after reset()
AfterReset ==
    /\ ret.op = "reset"
    /\ Len(snake) = 3
    /\ \A i \in 1..Len(snake) : ~OutOfBounds(snake[i])
    /\ direction = RIGHT
    /\ score = 0
    /\ frame_count = 0
    /\ food \notin Cells(snake)

\* C6 as claimed: on every board with width >= 1 and height >= 1, right
\* after reset() the snake has 3 cells, all in bounds, the heading is
\* right, score and framesSinceFood are 0 and the food is off the snake.
C6_ResetWellFormedOnAllBoards ==
    ret.op = "reset" => AfterReset

\* C6 amended: the same on every board with width >= 4 and height >= 1.
C6_ResetWellFormedOnWideBoards ==
    (ret.op = "reset" /\ width >= 4) => AfterReset

\* reset() on a board of width 5 put the food in the last column
C6_Witness ==
    /\ ret.op = "reset" /\ width = 5 /\ height >= 2
    /\ snake = << <<2, height \div 2>>, <<1, height \div 2>>, <<0, height \div 2>> >>
    /\ food[1] = 4

\* C7: for each action a, the danger flag of a in the encoding is 1 if and
\* only if step(a) from this state would end with reason "collision".
C7_DangerFlagsAreCollisions ==
    \A a \in Actions :
        (get_state(snake, direction, food, width, height)[a + 1] = 1) <=> WouldCollide(a)

\* a grown snake has its own tail cell next to its head, flagged as a
\* danger, and a free cell to move to
C7_Witness ==
    /\ score >= 1
    /\ \E a \in Actions :
          /\ NewHead(a) = TailCell
          /\ get_state(snake, direction, food, width, height)[a + 1] = 1
    /\ \E b \in Actions : get_state(snake, direction, food, width, height)[b + 1] = 0

\* C8: a non-colliding step after which score >= width*height - 3 returns
\* done with reason "win" and reward 50 whatever the transition earned; no
\* step returns "win" while score < width*height - 3.
C8_WinAtFullBoard ==
    [][\A a \in Actions : Stepped(a) =>
          /\ (ret'.reason # "collision" /\ score' >= width * height - 3)
                => (ret'.done /\ ret'.reason = "win" /\ ret'.reward = WinReward)
          /\ ret'.reason = "win" => score' >= width * height - 3]_vars

\* the last step ate the food that filled a board of at least 6 cells
C8_Witness ==
    /\ ret.op = "step" /\ ~ret.raised /\ ret.reason = "win"
    /\ frame_count = 0 /\ score = width * height - 3 /\ score >= 3
    /\ food = NoFood

\* C9: a step that neither collides nor wins returns done with reason
\* "stuck" and reward -5 exactly when framesSinceFood after it exceeds
\* 2*width*height, and "running", not done, otherwise; framesSinceFood
\* grows by 1 with each step that does not eat, so that the first such
\* return comes at frame 2*width*height + 1.
C9_StuckPastThreshold ==
    [][\A a \in Actions : (Stepped(a) /\ ret'.reason \notin {"collision", "win"}) =>
          /\ IF frame_count' > 2 * width * height
             THEN ret'.done /\ ret'.reason = "stuck" /\ ret'.reward = StuckReward
             ELSE ~ret'.done /\ ret'.reason = "running"
          /\ NewHead(a) # food => frame_count' = frame_count + 1
          /\ NewHead(a) = food => frame_count' = 0
          /\ (ret'.reason = "stuck" /\ frame_count <= 2 * width * height)
                => frame_count' = 2 * width * height + 1]_vars

\* the last step was the first to pass the threshold
C9_Witness ==
    /\ ret.op = "step" /\ ~ret.raised /\ ret.reason = "stuck"
    /\ frame_count = 2 * width * height + 1
    /\ ret.reward = StuckReward

\* C10: step(action) with an action outside 0..2 raises ValueError and
\* leaves snake, heading, food, score and framesSinceFood as they were.
C10_InvalidActionLeavesState ==
    [][\A a \in InvalidActions : StepInvalidAction(a) =>
          /\ ret'.raised
          /\ snake' = snake /\ direction' = direction /\ food' = food
          /\ score' = score /\ frame_count' = frame_count]_vars

\* ------------------------------------------- claims on the hybrid policy
\* the in-bounds cells of a w x h grid that are not blocked
FreeCells(blocked, w, h) == ((0..(w - 1)) \X (0..(h - 1))) \ blocked

\* the free cells one move away from a cell of S
Around(S, blocked, w, h) ==
    {p \in FreeCells(blocked, w, h) :
        \E c \in S : Abs(p[1] - c[1]) + Abs(p[2] - c[2]) = 1}

\* the cells joined to a cell of S by a path through free cells
RECURSIVE Closure(_, _, _, _)
Closure(S, blocked, w, h) ==
    LET T == S \union Around(S, blocked, w, h)
    IN  IF T = S THEN S ELSE Closure(T, blocked, w, h)

\* the cells joined to start by a path through free cells, start included
Component(start, blocked, w, h) == Closure({start}, blocked, w, h)

\* S holds the cells at most k moves from the start: the least number of
\* moves after which the target is among them, NoPath if it never is
RECURSIVE Moves(_, _, _, _, _, _)
Moves(S, k, target, blocked, w, h) ==
    IF target \in S THEN k
    ELSE LET T == S \union Around(S, blocked, w, h)
         IN  IF T = S THEN NoPath ELSE Moves(T, k + 1, target, blocked, w, h)

\* the least number of moves of a path from start to target through free
\* cells, NoPath if there is none
PathLength(start, target, blocked, w, h) == Moves({start}, 0, target, blocked, w, h)

\* the body after the move of action a, as the environment's rule gives it
BodyAfter(a) ==
    IF NewHead(a) = food THEN <<NewHead(a)>> \o snake
    ELSE <<NewHead(a)>> \o ButLast(snake)

\* the composite score of action a as the specification words it, in
\* hundredths, without the term of the table value
StructuralScore(a) ==
    LET body == BodyAfter(a)
        blocked == Cells(Rest(body))
        eats == NewHead(a) = food
        path == PathLength(NewHead(a), food, blocked, width, height)
        area == Cardinality(Component(NewHead(a), blocked, width, height))
        progress == IF path # NoPath THEN manhattan(snake[1], food) - path
                    ELSE IF eats THEN 0 ELSE -2
    IN  180 * progress + 3 * area
        + (IF eats THEN 600 ELSE 0)
        - (IF area < Len(body) + 2 THEN 600 ELSE 0)

\* the composite score of action a for the table entry q
CompositeScore(a, q) == 70 * q[a + 1] + StructuralScore(a)

SafeSet == Cells(safe_actions(snake, direction, food, width, height))

\* the smallest of the actions with the highest score in sc
BestOf(sc) ==
    CHOOSE a \in DOMAIN sc :
        \A b \in DOMAIN sc : sc[b] < sc[a] \/ (sc[b] = sc[a] /\ a <= b)

\* the scenario of the specification: 12 x 12 board, snake
\* [(6,6),(5,6),(4,6)] heading right, food at (9,6), all-zero table
ScenarioChoice ==
    choose_action(<< <<6, 6>>, <<5, 6>>, <<4, 6>> >>, RIGHT, <<9, 6>>, 12, 12, <<0, 0, 0>>)

\* C11: when the safe set is not empty, choose_action returns the safe
\* action with the highest composite score, the smallest such action on a
\* tie; in the 12 x 12 scenario it returns 0.
C11_ChoosesBestSafeAction ==
    /\ SafeSet # {} =>
          LET base == [a \in SafeSet |-> StructuralScore(a)]
          IN  \A q \in QTriples :
                  choose_action(snake, direction, food, width, height, q)
                      = BestOf([a \in SafeSet |-> 70 * q[a + 1] + base[a]])
    /\ ScenarioChoice = 0

\* choose_action returned the smaller of two safe actions that tie for the
\* highest score
C11_Witness ==
    /\ chosen # NoAction
    /\ \E q \in QTriples :
          /\ chosen = choose_action(snake, direction, food, width, height, q)
          /\ \E b \in SafeSet :
                b > chosen /\ CompositeScore(b, q) = CompositeScore(chosen, q)

Returned(op) == call.op = op /\ call.returned

\* C12: _shortest_path_dist returns 0 when start = target whatever is
\* blocked, NoPath when the target is blocked or no path of free in-bounds
\* cells joins start to it, and otherwise the least number of steps of
\* such a path.
C12_ShortestPathDistIsPathLength ==
    Returned("shortest_path_dist") =>
        call.result =
            IF call.start = call.target THEN 0
            ELSE IF \/ call.target \in call.blocked
                    \/ call.target \notin Component(call.start, call.blocked, call.w, call.h)
                 THEN NoPath
                 ELSE PathLength(call.start, call.target, call.blocked, call.w, call.h)

\* the search returned the length of a path that has to go around blocked
\* cells
C12_Witness ==
    /\ Returned("shortest_path_dist")
    /\ call.start \notin call.blocked
    /\ call.result # NoPath
    /\ call.result > manhattan(call.start, call.target)

\* the fill of the empty 5 x 5 grid from its centre
EmptyGridFill == flood_fill_size(<<2, 2>>, {}, 5, 5)

\* C13: _flood_fill_size returns 0 when start is blocked or out of bounds,
\* and otherwise the number of cells of the component of start among the
\* free in-bounds cells: 1 when every in-bounds neighbour of start is
\* blocked, 25 on the empty 5 x 5 grid.
C13_FloodFillSizeIsComponentSize ==
    /\ Returned("flood_fill_size") =>
          /\ call.result =
                IF call.start \in call.blocked \/ call.start \notin GridCells(call.w, call.h)
                THEN 0
                ELSE Cardinality(Component(call.start, call.blocked, call.w, call.h))
          /\ ( /\ call.start \in GridCells(call.w, call.h) \ call.blocked
               /\ \A i \in 1..4 :
                     Neighbours(call.start)[i] \in GridCells(call.w, call.h)
                         => Neighbours(call.start)[i] \in call.blocked )
             => call.result = 1
    /\ EmptyGridFill = 25

\* the fill returned 1 from the centre of a 3 x 3 grid inside a ring of
\* blocked cells, with free cells beyond the ring
C13_Witness ==
    /\ Returned("flood_fill_size")
    /\ call.w = 3 /\ call.h = 3 /\ call.start = <<1, 1>>
    /\ call.blocked = {<<0, 1>>, <<2, 1>>, <<1, 0>>, <<1, 2>>}
    /\ call.result = 1

\* ------------------------------------ claims on the value table alone
\* the entry choose_action_rl_only reads: that of the state, all zero when
\* the table holds none
EntryRead ==
    IF call.state \in DOMAIN call.q_table THEN call.q_table[call.state] ELSE <<0, 0, 0>>

\* C15: choose_action_rl_only returns the smallest index whose value in
\* the entry of the state equals the maximum of the three, 0 when the
\* table holds no entry for the state; the result is a function of that
\* entry alone.
C15_RlOnlyIsFirstMaximum ==
    Returned("choose_action_rl_only") =>
        /\ call.result \in 0..2
        /\ \A j \in 0..2 : EntryRead[j + 1] <= EntryRead[call.result + 1]
        /\ \A j \in 0..2 : EntryRead[j + 1] = EntryRead[call.result + 1] => call.result <= j
        /\ call.state \notin DOMAIN call.q_table => call.result = 0

\* index 1 was returned for an entry whose maximum stands at 1 and at 2,
\* from a table that also holds another state
C15_Witness ==
    /\ Returned("choose_action_rl_only")
    /\ DOMAIN call.q_table = RlStates
    /\ call.q_table[call.state] = <<-5, 10, 10>>
    /\ call.result = 1

\* the key of the entry splits into StateWidth integers
KeyWellShaped(key) ==
    /\ Len(split(key)) = StateWidth
    /\ \A k \in 1..StateWidth : ~int_raises(split(key)[k])

\* C16: loading fails whenever an entry has a key that does not parse into
\* an 11-integer tuple or a value list whose length is not 3; a table that
\* was loaded maps only 11-tuples to 3-element lists.
C16_LoadRejectsMisshapenEntries ==
    Returned("load_q_table") =>
        /\ (\E i \in 1..Len(call.payload) :
                \/ ~KeyWellShaped(call.payload[i][1])
                \/ Len(call.payload[i][2]) # EntryWidth)
              => call.raised
        /\ ~call.raised =>
              \A st \in DOMAIN call.table :
                  Len(st) = StateWidth /\ Len(call.table[st]) = EntryWidth

\* ------------------------------------------ claims on whole episodes
\* C17: on a board of width 4 or more, in every state reached by reset
\* and steps with valid actions, the cells of the snake are pairwise
\* distinct and in bounds, consecutive cells are 4-adjacent, and the
\* length is 3 + score.
C17_SnakeWellFormed ==
    width >= 4 =>
        /\ \A i, j \in 1..Len(snake) : i # j => snake[i] # snake[j]
        /\ \A i \in 1..Len(snake) : in_bounds(snake[i], width, height)
        /\ \A i \in 1..(Len(snake) - 1) : manhattan(snake[i], snake[i + 1]) = 1
        /\ Len(snake) = 3 + score

\* a snake that has eaten twice and turned twice lies next to its own body
C17_Witness ==
    /\ width >= 4
    /\ ret.op = "step"
    /\ score >= 2
    /\ \E i \in 4..Len(snake) : manhattan(snake[1], snake[i]) = 1

\* the last call of reset or step left the episode running
Running == ret.reason = "running"

\* C18 as stated: the food never lies on a snake cell, and while the
\* episode is running the food is an in-bounds cell, on every board.
C18_FoodFreeAndOnBoardOnAllBoards ==
    /\ food \notin Cells(snake)
    /\ Running => in_bounds(food, width, height)

\* C18 amended: the food never lies on a snake cell, and on a board of
\* width 3 or more or of height 2 or more the food is an in-bounds cell
\* while the episode is running.
C18_FoodFreeAndOnBoard ==
    /\ food \notin Cells(snake)
    /\ (width >= 3 \/ height >= 2) /\ Running => in_bounds(food, width, height)

\* a step has just eaten, the episode goes on, and the food was placed
\* again on a free cell of the board
C18_Witness ==
    /\ ret.op = "step" /\ ~ret.raised /\ Running
    /\ score >= 1 /\ frame_count = 0
    /\ in_bounds(food, width, height)
    /\ food \notin Cells(snake)

\* the bounds of C19 on the states in which the episode is running: at
\* most 2 * width * height steps since the score last rose, and a score of
\* at most width * height - 3
RunningWithinBounds ==
    Running =>
        /\ frame_count <= max_frames_without_food(width, height)
        /\ score <= width * height - 3

\* frame_count counts the steps in a row that left the score as it was
CountsStepsWithoutFood ==
    [][ret'.op = "step" /\ score' = score => frame_count' = frame_count + 1]_vars

\* C19 as stated: under any sequence of valid actions every episode
\* reaches a step that returns done = True; step returns "running" at most
\* 2 * width * height times in a row without the score rising, and the
\* score never exceeds width * height - 3 while the episode is running, on
\* every board.
C19_EpisodesEndOnAllBoards ==
    /\ []RunningWithinBounds
    /\ CountsStepsWithoutFood
    /\ ~ret.done ~> ret.done

\* C19 amended: the bound on the score is claimed on boards of 3 cells or
\* more; every episode ends and the bound on the steps holds on every
\* board.
C19_EpisodesEnd ==
    /\ [](Running => frame_count <= max_frames_without_food(width, height))
    /\ [](width * height >= 3 /\ Running => score <= width * height - 3)
    /\ CountsStepsWithoutFood
    /\ ~ret.done ~> ret.done

\* an episode has run for 2 * width * height steps without eating and was
\* ended by the step after them
C19_Witness ==
    /\ ret.op = "step" /\ ret.done /\ ret.reason = "stuck"
    /\ frame_count = max_frames_without_food(width, height) + 1

\* ------------------------------- claims on the simulation against step
\* C20: when step(a) does not collide, the hypothetical body of
\* _simulate_step(env, a) is the snake after step(a), its head is the new
\* head, its eat flag is true exactly when step(a) raises the score, and
\* the blocked set built from it holds the old tail cell exactly when the
\* move eats.
C20_SimulationMatchesStep ==
    [][\A a \in Actions :
          Stepped(a) /\ ret'.reason # "collision" =>
              LET sim == simulate_step(snake, direction, food, a)
              IN  /\ sim.next_body = snake'
                  /\ sim.next_head = snake'[1]
                  /\ sim.next_head = NewHead(a)
                  /\ sim.ate_food <=> score' = score + 1
                  /\ TailCell \in Cells(Rest(sim.next_body)) <=> sim.ate_food]_vars

\* a step has moved a snake that had eaten before without eating again,
\* so the cell of its tail was vacated
C20_Witness ==
    /\ ret.op = "step" /\ ~ret.raised /\ ret.reason # "collision"
    /\ Len(snake) >= 4
    /\ frame_count > 0

\* ------------------------------------- claims on the heading resolution
\* the heading after h in the clockwise order right, down, left, up
NextClockwise(h) ==
    IF h = RIGHT THEN DOWN ELSE IF h = DOWN THEN LEFT ELSE IF h = LEFT THEN UP ELSE RIGHT

Opposite(h) == <<0 - h[1], 0 - h[2]>>

\* C21: _next_direction and _simulate_step resolve the same heading; for
\* each heading h action 0 keeps h, action 1 yields the next heading
\* clockwise and action 2 the previous one; right then left and left then
\* right restore h, four rights restore h, the result is one of the four
\* unit vectors and never the opposite of h.
C21_HeadingResolution ==
    Returned("next_direction") =>
        LET h == call.direction
            turn(d, a) == next_direction(d, a)
        IN  /\ call.result = call.simulated
            /\ call.action = 0 => call.result = h
            /\ call.action = 1 => call.result = NextClockwise(h)
            /\ call.action = 2 => NextClockwise(call.result) = h
            /\ turn(turn(h, 1), 2) = h
            /\ turn(turn(h, 2), 1) = h
            /\ turn(turn(turn(turn(h, 1), 1), 1), 1) = h
            /\ call.result \in {UP, RIGHT, DOWN, LEFT}
            /\ call.result # Opposite(h)

\* a left turn from heading right, where the index wraps around, was
\* resolved to heading up
C21_Witness ==
    /\ Returned("next_direction")
    /\ call.direction = RIGHT /\ call.action = 2
    /\ call.result = UP

\* ---------------------------------------- claims on the closed loop
\* C22: in the loop in which every action is the one choose_action
\* returned, a step ends with reason "collision" only from a state in
\* which each of the three actions collides under the rule of step.
C22_CollidesOnlyWhenAllCollide ==
    [][(/\ chosen # NoAction
        /\ chosen' = NoAction
        /\ ret'.op = "step"
        /\ ret'.reason = "collision")
          => \A a \in Actions : is_collision(snake, width, height, NewHead(a))]_vars

\* ------------------------------------- claims on what follows the end
\* C23: once step has returned done = True, every further step with an
\* action in 0..2 made before the next reset returns done = True and
\* changes neither the snake nor the score.
C23_FinishedIsAbsorbing ==
    [][\A a \in Actions :
          ret.op = "step" /\ ret.done /\ Stepped(a) =>
              ret'.done /\ snake' = snake /\ score' = score]_vars

\* ---------------------------------------------- claims on manual play
\* C24: after the arrow key of a direction D that is not opposite to the
\* heading of the snake was pressed, the tick that follows and every later
\* tick without another key press leave the snake heading D, as long as
\* the episode has not ended; after the key opposite to the heading, the
\* heading stays what it was.
C24_ArrowSetsHeading ==
    (pressed.key # NoKey /\ pressed.ticks >= 1) =>
        direction = IF pressed.key = Opposite(pressed.heading)
                    THEN pressed.heading
                    ELSE pressed.key

====
